---- MODULE Spec2Model ----
(***************************************************************************)
(* A model of the degree-audit engine: the claim ledger of the            *)
(* RequirementContext (make_claim and the operations that call it), and   *)
(* the evaluation of assertions over a set of courses.                    *)
(***************************************************************************)
EXTENDS Integers, Sequences, FiniteSets, TLC

VARIABLES
    multicountable,   \* RequirementContext.multicountable: a list of clausesets
    claims,           \* RequirementContext.claims: clbid -> set of Claim
    last,             \* the operation that ran last, its arguments and what it returned
    assertion,        \* the Assertion under evaluation
    value,            \* the items handed to Assertion.evaluate
    result            \* what Assertion.evaluate returned

vars == <<multicountable, claims, last, assertion, value, result>>

----------------------------------------------------------------------------
(* Bounds *)

\* the number of claims an audit records in the ledger before the model stops
\* proposing further ones
MaxRecorded == 3

\* the number of items handed to an assertion
MaxItems == 2

\* the largest expected value of an assertion
MaxExpected == 3

\* the number of courses handed to an audited assertion
MaxAudited == 3

\* the most sub-expressions of a $and or a $or
MaxOperands == 2

\* the most entries of an assertion's $changes
MaxChanges == 2

\* the most audit calls the server takes
MaxCalls == 3

----------------------------------------------------------------------------
(* The value model: courses, clauses, claims *)

\* ctx.transcript(): two course instances, each with its clbid, crsid and course
transcript ==
    << [clbid |-> "c1", crsid |-> "r1", course |-> "BIO 101"],
       [clbid |-> "c2", crsid |-> "r2", course |-> "HIST 210"] >>

Transcript == { transcript[i] : i \in DOMAIN transcript }

Clbids == { c.clbid : c \in Transcript }

\* claimant paths
Paths == { <<"$", "Major">>, <<"$", "Electives">> }

\* SingleClause(key, operator, expected); `expected` is kept as the set of the
\* values it names (one value for EqualTo, several for In)
SingleClause(key, operator, expected) ==
    [type |-> "single-clause", key |-> key, operator |-> operator, expected |-> expected]

\* a course rule, as handed to make_claim in place of a clause
CourseRule(course, allow_claimed) ==
    [type |-> "course", course |-> course, allow_claimed |-> allow_claimed]

Elective == SingleClause("attributes", "EqualTo", {"elective"})
Post1800 == SingleClause("attributes", "EqualTo", {"post1800"})
War == SingleClause("attributes", "EqualTo", {"war"})
CourseBio == SingleClause("course", "EqualTo", {"BIO 101"})

\* the clauses query rules claim courses under
QueryClauses == {Elective, Post1800, War}

\* the course rules of the area
CourseRules == { CourseRule("BIO 101", a) : a \in BOOLEAN }

\* the multicountable policies an area specification may declare
Policies ==
    { <<>>,
      << <<Elective, Post1800>>, <<Elective, War>> >>,
      << <<Elective, Post1800>>, <<Elective, Post1800, War>> >>,
      << <<CourseBio, Elective>> >> }

\* SingleClause.is_subset: self implies other
is_subset(self, other) ==
    /\ self.key = other.key
    /\ \/ self.operator = "EqualTo" /\ other.operator = "EqualTo" /\ self.expected = other.expected
       \/ self.operator = "EqualTo" /\ other.operator = "In" /\ self.expected \subseteq other.expected
       \/ self.operator = "In" /\ other.operator = "In" /\ self.expected \subseteq other.expected

\* `name = value` followed by the statements that read `name`
Bind(v, F(_)) == F(v)

Claim(crsid, clbid, claimant_path, clause) ==
    [crsid |-> crsid, clbid |-> clbid, claimant_path |-> claimant_path, value |-> clause]

ClaimAttempt(claim, conflict_with, did_fail) ==
    [claim |-> claim, conflict_with |-> conflict_with, did_fail |-> did_fail]

----------------------------------------------------------------------------
(* RequirementContext: the ledger *)

\* defaultdict(set): every clbid reads as the empty set until a claim is added
EmptyLedger == [k \in Clbids |-> {}]

\* the set of the clbid replaced by one holding the claim alone
AddClaim_Replacing(ledger, claim) ==
    [ledger EXCEPT ![claim.clbid] = {claim}]

\* self.claims[clbid].add(claim)
AddClaim(ledger, claim) ==
    [ledger EXCEPT ![claim.clbid] = @ \cup {claim}]

\* set_claims: the ledger becomes a copy of the mapping handed in
set_claims(given) ==
    [k \in DOMAIN given |-> { c : c \in given[k] }]

\* reset_claims: the ledger becomes empty
reset_claims == EmptyLedger

----------------------------------------------------------------------------
(* RequirementContext.make_claim *)

\* coerce course rules to clauses
CoerceClause(clause) ==
    IF clause.type = "course"
    THEN SingleClause("course", "EqualTo", {clause.course})
    ELSE clause

\* AllowsClaimed, reading the argument only and not the rule's option
AllowsClaimed_ArgumentOnly(clause, allow_claimed) ==
    allow_claimed

\* the claim succeeds unrecorded: the allow_claimed argument, or the rule's own option
AllowsClaimed(clause, allow_claimed) ==
    allow_claimed \/ (clause.type = "course" /\ clause.allow_claimed)

\* the multicountable sets that may apply to the clause, in list order
applicable_clausesets(clause) ==
    SelectSeq(multicountable,
              LAMBDA clauseset : \E i \in DOMAIN clauseset : is_subset(clauseset[i], clause))

\* all_are_supersets, with any() in place of all() over the clauses to cover
all_are_supersets_Any(clauseset, clauses_to_cover) ==
    \E p_clause \in clauses_to_cover :
        \E i \in DOMAIN clauseset : is_subset(clauseset[i], p_clause)

\* every clause to cover has a member of the clauseset that is its subset
all_are_supersets(clauseset, clauses_to_cover) ==
    \A p_clause \in clauses_to_cover :
        \E i \in DOMAIN clauseset : is_subset(clauseset[i], p_clause)

\* FindApplicableClauseset without the covering test: the first applicable clauseset
FindApplicableClauseset_FirstApplicable(clausesets, i, clauses_to_cover) ==
    IF i > Len(clausesets) THEN 0 ELSE i

\* FindApplicableClauseset without the break: the last covering clauseset wins
FindApplicableClauseset_NoBreak(clausesets, i, clauses_to_cover) ==
    LET covering == { j \in i..Len(clausesets) : all_are_supersets(clausesets[j], clauses_to_cover) }
    IN  IF covering = {} THEN 0 ELSE CHOOSE j \in covering : \A m \in covering : m <= j

\* the loop over the applicable clausesets, from position i on: the position of the
\* first one that covers every clause (the loop breaks there), 0 for None
RECURSIVE FindApplicableClauseset(_, _, _)
FindApplicableClauseset(clausesets, i, clauses_to_cover) ==
    IF i > Len(clausesets)
    THEN 0
    ELSE IF all_are_supersets(clausesets[i], clauses_to_cover)
         THEN i
         ELSE FindApplicableClauseset(clausesets, i + 1, clauses_to_cover)

\* the clauses of the chosen clauseset that no prior clause has used
available_clauses(applicable_clauseset, prior_clauses) ==
    SelectSeq(applicable_clauseset,
              LAMBDA c : ~ \E prior_clause \in prior_clauses : is_subset(c, prior_clause))

\* RejectedAttempt, reporting no conflict
RejectedAttempt_NoConflict(claim, prior_claims) ==
    ClaimAttempt(claim, {}, TRUE)

\* a rejected attempt: it conflicts with the prior claims
RejectedAttempt(claim, prior_claims) ==
    ClaimAttempt(claim, prior_claims, TRUE)

\* make_claim on `ledger`: the ClaimAttempt returned and the ledger left behind
make_claim(ledger, course, path, clause_arg, allow_claimed) ==
    LET clause == CoerceClause(clause_arg)
        claim == Claim(course.crsid, course.clbid, path, clause)
        prior_claims == ledger[course.clbid]
        unrecorded == [attempt |-> ClaimAttempt(claim, {}, FALSE), claims |-> ledger]
        recorded == [attempt |-> ClaimAttempt(claim, {}, FALSE), claims |-> AddClaim(ledger, claim)]
        rejected == [attempt |-> RejectedAttempt(claim, prior_claims), claims |-> ledger]
        conflict == IF prior_claims # {} THEN rejected ELSE recorded
        clausesets == applicable_clausesets(clause)
        prior_clauses == { cl.value : cl \in prior_claims }
        clauses_to_cover == prior_clauses \cup {clause}
        found == FindApplicableClauseset(clausesets, 1, clauses_to_cover)
    IN  IF AllowsClaimed(clause_arg, allow_claimed) THEN unrecorded
        ELSE IF prior_claims = {} THEN recorded
        ELSE IF Len(clausesets) = 0 THEN conflict
        ELSE IF found = 0 THEN conflict
        ELSE IF Len(available_clauses(clausesets[found], prior_clauses)) = 0 THEN conflict
        ELSE recorded

----------------------------------------------------------------------------
(* The ledger's specification *)

Idle == "idle"

\* the result of an assertion that was not evaluated yet
NotEvaluated == [evaluated |-> FALSE]

\* the clauses and course rules make_claim is called with
ClauseArgs == QueryClauses \cup CourseRules

Init ==
    /\ multicountable \in Policies
    /\ claims = EmptyLedger
    /\ last = [op |-> "init"]
    /\ assertion = Idle
    /\ value = Idle
    /\ result = NotEvaluated

\* the number of claims the ledger holds
RECURSIVE LedgerSize(_, _)
LedgerSize(ledger, keys) ==
    IF keys = {} THEN 0
    ELSE LET k == CHOOSE x \in keys : TRUE
         IN  Cardinality(ledger[k]) + LedgerSize(ledger, keys \ {k})

\* a rule calls ctx.make_claim
MakeClaim ==
    /\ LedgerSize(claims, Clbids) < MaxRecorded
    /\ \E course \in Transcript, path \in Paths, clause \in ClauseArgs, allow_claimed \in BOOLEAN :
          LET r == make_claim(claims, course, path, clause, allow_claimed)
          IN  /\ claims' = r.claims
              /\ last' = [op |-> "make_claim", before |-> claims, course |-> course,
                          path |-> path, clause |-> clause, allow_claimed |-> allow_claimed,
                          attempt |-> r.attempt]
              /\ UNCHANGED <<multicountable, assertion, value, result>>

----------------------------------------------------------------------------
(* Saving and restoring the ledger *)

\* set_claims: the clbids whose set in the new ledger is the very set object of
\* the mapping handed in. set(v) builds a new set for every key, so there is none
set_claims_Aliasing(given) == DOMAIN given
set_claims_aliases(given) == {}

\* value.copy is the copy a caller keeps, value.original what the ledger held
\* when the copy was taken, value.shared the clbids whose set the ledger shares
\* with the copy
InitLedger ==
    /\ multicountable \in Policies
    /\ claims = EmptyLedger
    /\ last = [op |-> "init"]
    /\ assertion = Idle
    /\ value = [copy |-> EmptyLedger, original |-> EmptyLedger, shared |-> {}]
    /\ result = NotEvaluated

\* the caller copies the ledger
CopyLedger ==
    /\ value' = [copy |-> claims, original |-> claims, shared |-> {}]
    /\ last' = [op |-> "copy"]
    /\ UNCHANGED <<multicountable, claims, assertion, result>>

\* make_claim by one claimant with one of two clauses; a claim added to a set the
\* copy shares is added to the copy too
ClaimAfterCopy ==
    /\ LedgerSize(claims, Clbids) < MaxRecorded
    /\ \E course \in Transcript, path \in {<<"$", "Major">>}, clause \in {Elective, Post1800},
          allow_claimed \in BOOLEAN :
         \E r \in { make_claim(claims, course, path, clause, allow_claimed) } :
              /\ claims' = r.claims
              /\ value' = [value EXCEPT !.copy = [k \in Clbids |->
                                IF k \in value.shared THEN r.claims[k] ELSE value.copy[k]]]
              /\ last' = [op |-> "make_claim", before |-> claims, course |-> course,
                          allow_claimed |-> AllowsClaimed(clause, allow_claimed),
                          attempt |-> r.attempt]
    /\ UNCHANGED <<multicountable, assertion, result>>

\* set_claims(copy)
SetClaims ==
    /\ claims' = set_claims(value.copy)
    /\ value' = [value EXCEPT !.shared = set_claims_aliases(value.copy)]
    /\ last' = [op |-> "set_claims", before |-> claims]
    /\ UNCHANGED <<multicountable, assertion, result>>

\* reset_claims()
ResetClaims ==
    /\ claims' = reset_claims
    /\ value' = [value EXCEPT !.shared = {}]
    /\ last' = [op |-> "reset_claims"]
    /\ UNCHANGED <<multicountable, assertion, result>>

SpecLedger == InitLedger /\ [][CopyLedger \/ ClaimAfterCopy \/ SetClaims \/ ResetClaims]_vars

----------------------------------------------------------------------------
(* CourseSolution.audit *)

\* matched_course is None
NoCourse == [clbid |-> "None", crsid |-> "None", course |-> "None"]

\* claim_attempt is None
NoAttempt == [none |-> TRUE]

\* a CourseSolution: the course rule's fields and what from_rule adds to them
CourseSolution(course, allow_claimed, path, overridden, matched_course, forced, from_claimed) ==
    [type |-> "course", course |-> course, allow_claimed |-> allow_claimed, path |-> path,
     overridden |-> overridden, matched_course |-> matched_course, forced |-> forced,
     from_claimed |-> from_claimed]

\* CourseResult.from_solution
CourseResult(solution, claim_attempt, overridden) ==
    [course |-> solution.course, path |-> solution.path, overridden |-> overridden,
     has_claim_attempt |-> claim_attempt # NoAttempt, claim_attempt |-> claim_attempt]

\* ctx.has_claim(clbid=...)
has_claim(ledger, clbid) == ledger[clbid] # {}

\* AuditClaim, allowing claimed courses whatever the solution says
AuditClaim_AlwaysAllowed(ledger, sol) ==
    make_claim(ledger, sol.matched_course, sol.path, sol, TRUE)

\* the call of make_claim in audit: the solution stands for the clause, and the
\* claim is allowed when the solution is forced or the rule allows claimed courses
AuditClaim(ledger, sol) ==
    make_claim(ledger, sol.matched_course, sol.path, sol, sol.forced \/ sol.allow_claimed)

\* CourseSolution.audit on `ledger`: the result returned (or the assertion raised)
\* and the ledger left behind
CourseSolution_audit(ledger, sol) ==
    IF sol.overridden
    THEN [claims |-> ledger, raised |-> FALSE, result |-> CourseResult(sol, NoAttempt, sol.overridden)]
    ELSE IF sol.matched_course = NoCourse
    THEN [claims |-> ledger, raised |-> FALSE, result |-> CourseResult(sol, NoAttempt, FALSE)]
    ELSE IF sol.from_claimed /\ ~ has_claim(ledger, sol.matched_course.clbid)
    THEN [claims |-> ledger, raised |-> FALSE, result |-> CourseResult(sol, NoAttempt, FALSE)]
    ELSE LET claim == AuditClaim(ledger, sol)
         IN  IF sol.from_claimed /\ claim.attempt.did_fail
             THEN [claims |-> claim.claims, raised |-> TRUE, result |-> CourseResult(sol, claim.attempt, FALSE)]
             ELSE [claims |-> claim.claims, raised |-> FALSE, result |-> CourseResult(sol, claim.attempt, FALSE)]

\* ctx.find_course(rule.course)
find_course(course) ==
    IF \E c \in Transcript : c.course = course
    THEN CHOOSE c \in Transcript : c.course = course
    ELSE NoCourse

\* the courses of the area's course rules: two on the transcript, one not
RuleCourses == {"BIO 101", "HIST 210", "PHIL 400"}

\* the solutions a course rule yields: overridden, forced onto an inserted
\* course, or matched against the transcript by its course
CourseSolutions ==
    { CourseSolution(course, a, path, TRUE, NoCourse, FALSE, fc) :
        course \in RuleCourses, a \in BOOLEAN, path \in Paths, fc \in {FALSE} }
    \cup
    { CourseSolution("BIO 101", a, path, FALSE, c, TRUE, FALSE) :
        a \in BOOLEAN, path \in Paths, c \in Transcript }
    \cup
    { CourseSolution(course, a, path, FALSE, find_course(course), FALSE, fc) :
        course \in RuleCourses, a \in BOOLEAN, path \in Paths, fc \in BOOLEAN }

\* a course rule's solution is audited
AuditCourse ==
    /\ LedgerSize(claims, Clbids) < MaxRecorded
    /\ \E sol \in CourseSolutions :
          LET r == CourseSolution_audit(claims, sol)
          IN  /\ claims' = r.claims
              /\ last' = [op |-> "audit", before |-> claims, solution |-> sol,
                          raised |-> r.raised, result |-> r.result]
              /\ UNCHANGED <<multicountable, assertion, value, result>>

----------------------------------------------------------------------------
(* load_clause *)

\* clause data, as read from an area specification
SingleData(clause) == [kind |-> "single", clause |-> clause]
NoData == [kind |-> "none"]
IfData(query, then, else) == [kind |-> "$if", query |-> query, then |-> then, else |-> else]
AndData(children) == [kind |-> "$and", children |-> children]
OrData(children) == [kind |-> "$or", children |-> children]

\* the query of an $if: its where-clause and the number of courses it asserts
QueryData(where, atleast) == [where |-> where, atleast |-> atleast]

\* the loaded clauses
NoClause == [type |-> "none"]
AndClause(children) == [type |-> "and-clause", children |-> children]
OrClause(children) == [type |-> "or-clause", children |-> children]

\* the attributes the transcript's courses carry
Attributes(clbid) ==
    IF clbid = "c1" THEN {"elective", "post1800", "war"} ELSE {"elective"}

\* the $if conditions and clause documents the model loads
IfQueries ==
    { QueryData(Elective, 1), QueryData(Elective, 2), QueryData(War, 2), QueryData(Post1800, 1) }

Leaf == SingleData(Elective)

ClauseDocs ==
    {Leaf}
    \cup { IfData(q, Leaf, e) : q \in IfQueries, e \in {NoData, SingleData(War)} }
    \cup { IfData(q, IfData(QueryData(War, 1), Leaf, NoData), SingleData(War)) : q \in IfQueries }
    \cup { AndData(<<Leaf, IfData(q, SingleData(Post1800), NoData)>>) : q \in IfQueries }
    \cup { OrData(<<IfData(q, Leaf, IfData(QueryData(Elective, 1), Leaf, NoData)), Leaf>>) : q \in IfQueries }

\* the query's where-clause matches the course
Matches(query, c) == query.where.expected \subseteq Attributes(c.clbid)

\* claim in turn, from position i of the transcript on, the courses that the
\* query's where-clause matches
RECURSIVE ClaimMatches(_, _, _)
ClaimMatches(ledger, query, i) ==
    IF i > Len(transcript)
    THEN [claims |-> ledger, claimed |-> 0]
    ELSE IF ~ Matches(query, transcript[i])
    THEN ClaimMatches(ledger, query, i + 1)
    ELSE Bind(make_claim(ledger, transcript[i], <<"$if">>, query.where, FALSE), LAMBDA r :
         Bind(ClaimMatches(r.claims, query, i + 1), LAMBDA rest :
              [claims |-> rest.claims,
               claimed |-> rest.claimed + (IF r.attempt.did_fail THEN 0 ELSE 1)]))

\* find_best_solution(rule, ctx) for the query of an $if: the solver claims the
\* matching courses; the solution is ok when enough of them were claimed
find_best_solution(ledger, query) ==
    Bind(ClaimMatches(ledger, query, 1), LAMBDA r :
         [claims |-> r.claims, ok |-> r.claimed >= query.atleast, claimed |-> r.claimed])

\* entering `with ctx.fresh_claims()`: the ledger is saved and reset
fresh_claims_enter(ledger) ==
    [saved |-> ledger, claims |-> reset_claims]

\* leaving `with ctx.fresh_claims()`: the saved ledger is put back
fresh_claims_exit(saved) ==
    set_claims(saved)

\* SolveCondition, solving against the ledger itself, outside fresh_claims()
SolveCondition_Unscoped(ledger, query) ==
    find_best_solution(ledger, query)

\* with ctx.fresh_claims(): s = find_best_solution(rule=rule, ctx=ctx)
SolveCondition(ledger, query) ==
    Bind(fresh_claims_enter(ledger), LAMBDA scope :
    Bind(find_best_solution(scope.claims, query), LAMBDA s :
         [claims |-> fresh_claims_exit(scope.saved), ok |-> s.ok, claimed |-> s.claimed]))

RECURSIVE load_clause(_, _)
RECURSIVE load_clauses(_, _, _)

\* load_clauses: the children loaded in order from position i, None results dropped
load_clauses(ledger, data, i) ==
    IF i > Len(data)
    THEN [claims |-> ledger, clauses |-> <<>>, claimed |-> 0]
    ELSE Bind(load_clause(ledger, data[i]), LAMBDA loaded :
         Bind(load_clauses(loaded.claims, data, i + 1), LAMBDA rest :
              [claims |-> rest.claims,
               clauses |-> IF loaded.clause = NoClause
                           THEN rest.clauses
                           ELSE <<loaded.clause>> \o rest.clauses,
               claimed |-> loaded.claimed + rest.claimed]))

\* load_clause on `ledger`: the clause returned, the ledger left behind, and the
\* number of claims the condition solvers recorded on the way
load_clause(ledger, data) ==
    IF data.kind = "$and"
    THEN Bind(load_clauses(ledger, data.children, 1), LAMBDA r :
              [claims |-> r.claims, clause |-> AndClause(r.clauses), claimed |-> r.claimed])
    ELSE IF data.kind = "$or"
    THEN Bind(load_clauses(ledger, data.children, 1), LAMBDA r :
              [claims |-> r.claims, clause |-> OrClause(r.clauses), claimed |-> r.claimed])
    ELSE IF data.kind = "$if"
    THEN Bind(SolveCondition(ledger, data.query), LAMBDA s :
         Bind(load_clause(s.claims, data.then), LAMBDA when_yes :
         Bind(IF data.else # NoData
              THEN load_clause(when_yes.claims, data.else)
              ELSE [claims |-> when_yes.claims, clause |-> NoClause, claimed |-> 0], LAMBDA when_no :
              [claims |-> when_no.claims,
               clause |-> IF s.ok THEN when_yes.clause ELSE when_no.clause,
               claimed |-> s.claimed + when_yes.claimed + when_no.claimed])))
    ELSE [claims |-> ledger, clause |-> data.clause, claimed |-> 0]

\* a rule's where-clause is loaded
LoadClause ==
    \E data \in ClauseDocs :
        \E r \in {load_clause(claims, data)} :
            /\ claims' = r.claims
            /\ last' = [op |-> "load_clause", before |-> claims, data |-> data,
                        clause |-> r.clause, claimed |-> r.claimed]
            /\ UNCHANGED <<multicountable, assertion, value, result>>

Next ==
    \/ MakeClaim

Spec == Init /\ [][Next]_vars

NextRules ==
    \/ AuditCourse
    \/ LoadClause

SpecRules == Init /\ [][NextRules]_vars

----------------------------------------------------------------------------
(* Assertions: the items, the reducers, the operators *)

\* a CourseInstance as an assertion sees it
CourseItem(ip, this_term, in_future, incomplete, credits) ==
    [is_in_progress |-> ip, is_in_progress_this_term |-> this_term,
     is_in_progress_in_future |-> in_future, is_incomplete |-> incomplete, credits |-> credits]

\* the courses of a transcript: completed, or in progress and then enrolled this
\* term or registered for a future one, incomplete or not; an in-progress course
\* with none of the three marks is what the audit calls an invariant violation
CourseItems ==
    { CourseItem(ip, tt, fu, inc, cr) :
        ip \in BOOLEAN, tt \in BOOLEAN, fu \in BOOLEAN, inc \in BOOLEAN, cr \in {1, 2} }

WellTypedCourseItems ==
    { c \in CourseItems :
        /\ (c.is_in_progress_this_term \/ c.is_in_progress_in_future \/ c.is_incomplete)
              => c.is_in_progress
        /\ ~ (c.is_in_progress_this_term /\ c.is_in_progress_in_future) }

AreaItems == { [code |-> "130"] }
MusicItems == { [name |-> "recital"] }

\* the sequences of at most n elements of S
RECURSIVE SeqUpTo(_, _)
SeqUpTo(S, n) ==
    IF n = 0 THEN { <<>> }
    ELSE LET shorter == SeqUpTo(S, n - 1)
         IN  shorter \cup { Append(q, x) : q \in { r \in shorter : Len(r) = n - 1 }, x \in S }

Operators ==
    {"EqualTo", "NotEqualTo", "LessThan", "LessThanOrEqualTo", "GreaterThan", "GreaterThanOrEqualTo"}

DataTypes == {"Course", "Area", "MusicPerformance", "Recital"}

\* course_actions, area_actions, other_actions: the keys of each data type
ActionsOf(data_type) ==
    IF data_type = "Course" THEN {"count(courses)", "sum(credits)"}
    ELSE IF data_type = "Area" THEN {"count(areas)"}
    ELSE IF data_type = "MusicPerformance" THEN {"count(performances)"}
    ELSE {"count(recitals)"}

ItemsOf(data_type) ==
    IF data_type = "Course" THEN WellTypedCourseItems
    ELSE IF data_type = "Area" THEN AreaItems
    ELSE MusicItems

\* apply_operator(lhs, op, rhs)
apply_operator(lhs, op, rhs) ==
    IF op = "EqualTo" THEN lhs = rhs
    ELSE IF op = "NotEqualTo" THEN lhs # rhs
    ELSE IF op = "LessThan" THEN lhs < rhs
    ELSE IF op = "LessThanOrEqualTo" THEN lhs <= rhs
    ELSE IF op = "GreaterThan" THEN lhs > rhs
    ELSE lhs >= rhs

RECURSIVE SumCredits(_, _)
SumCredits(items, i) ==
    IF i > Len(items) THEN 0 ELSE items[i].credits + SumCredits(items, i + 1)

\* AppliedClauseResult(value, courses)
AppliedClauseResult(reduced, courses) == [value |-> reduced, courses |-> courses]

\* apply_clause_to_assertion_with_courses: count(courses) and sum(credits)
apply_clause_to_assertion_with_courses(a, items) ==
    IF a.key = "count(courses)"
    THEN AppliedClauseResult(Len(items), items)
    ELSE AppliedClauseResult(SumCredits(items, 1), items)

\* apply_clause_to_assertion_with_areas: count(areas)
apply_clause_to_assertion_with_areas(a, items) ==
    AppliedClauseResult(Len(items), <<>>)

\* apply_clause_to_assertion_with_data: count(performances), count(recitals)
apply_clause_to_assertion_with_data(a, items) ==
    AppliedClauseResult(Len(items), <<>>)

\* any(c.field for c in items)
AnyOf(items, field) == \E i \in DOMAIN items : items[i][field]

not_in_progress(c) == ~ c.is_in_progress

----------------------------------------------------------------------------
(* evaluate_with_courses, evaluate_with_areas, evaluate_with_items *)

\* what an evaluation returns: a status and the reduced value, or what it raised
Evaluated(status, calculated) ==
    [evaluated |-> TRUE, raised |-> "none", status |-> status, resolved |-> calculated.value]

Raised(what, calculated) ==
    [evaluated |-> TRUE, raised |-> what, status |-> "none", resolved |-> calculated.value]

\* OperatorResultNoIp, taking the assertion to pass without its in-progress courses
OperatorResultNoIp_AlwaysTrue(a, items, calculated) ==
    TRUE

\* does the clause still pass if it's given only non-IP courses?
OperatorResultNoIp(a, items, calculated) ==
    IF AnyOf(calculated.courses, "is_in_progress")
    THEN LET non_ip_courses == SelectSeq(items, not_in_progress)
             calculated_result_no_ip == apply_clause_to_assertion_with_courses(a, non_ip_courses)
         IN  apply_operator(calculated_result_no_ip.value, a.operator, a.expected)
    ELSE TRUE

\* PendingStatus, testing the enrolled courses first and the registered ones not at all
PendingStatus_EnrolledFirst(calculated) ==
    LET has_enrolled_courses == AnyOf(calculated.courses, "is_in_progress_this_term")
        has_registered_courses == AnyOf(calculated.courses, "is_in_progress_in_future")
        has_incomplete_courses == AnyOf(calculated.courses, "is_incomplete")
    IN  IF ~ (has_enrolled_courses \/ has_registered_courses \/ has_incomplete_courses)
        THEN Raised("AssertionError", calculated)
        ELSE IF has_enrolled_courses \/ has_incomplete_courses
        THEN Evaluated("PendingCurrent", calculated)
        ELSE Evaluated("PendingRegistered", calculated)

\* PendingStatus, forgetting the incomplete courses when it tells enrolled from registered
PendingStatus_EnrolledOnly(calculated) ==
    LET has_enrolled_courses == AnyOf(calculated.courses, "is_in_progress_this_term")
        has_registered_courses == AnyOf(calculated.courses, "is_in_progress_in_future")
        has_incomplete_courses == AnyOf(calculated.courses, "is_incomplete")
    IN  IF ~ (has_enrolled_courses \/ has_registered_courses \/ has_incomplete_courses)
        THEN Raised("AssertionError", calculated)
        ELSE IF has_enrolled_courses /\ ~ has_registered_courses
        THEN Evaluated("PendingCurrent", calculated)
        ELSE IF has_registered_courses
        THEN Evaluated("PendingRegistered", calculated)
        ELSE Raised("unreachable", calculated)

\* the status of an assertion that passes only with its in-progress courses
PendingStatus(calculated) ==
    LET has_enrolled_courses == AnyOf(calculated.courses, "is_in_progress_this_term")
        has_registered_courses == AnyOf(calculated.courses, "is_in_progress_in_future")
        has_incomplete_courses == AnyOf(calculated.courses, "is_incomplete")
    IN  IF ~ (has_enrolled_courses \/ has_registered_courses \/ has_incomplete_courses)
        THEN Raised("AssertionError", calculated)
        ELSE IF (has_enrolled_courses \/ has_incomplete_courses) /\ ~ has_registered_courses
        THEN Evaluated("PendingCurrent", calculated)
        ELSE IF has_registered_courses
        THEN Evaluated("PendingRegistered", calculated)
        ELSE Raised("unreachable", calculated)

\* UnsatisfiedStatus, without the test that something was counted
UnsatisfiedStatus_NoZeroTest(operator, computed, expected) ==
    IF operator = "GreaterThan" /\ computed <= expected THEN "NeedsMoreItems"
    ELSE IF operator = "GreaterThanOrEqualTo" /\ computed < expected THEN "NeedsMoreItems"
    ELSE IF operator = "EqualTo" /\ computed < expected THEN "NeedsMoreItems"
    ELSE IF operator \in {"LessThan", "LessThanOrEqualTo"} THEN "FailedInvariant"
    ELSE "Empty"

\* the status of a course assertion whose operator is false
UnsatisfiedStatus(operator, computed, expected) ==
    IF operator = "GreaterThan" /\ 0 < computed /\ computed <= expected THEN "NeedsMoreItems"
    ELSE IF operator = "GreaterThanOrEqualTo" /\ 0 < computed /\ computed < expected THEN "NeedsMoreItems"
    ELSE IF operator = "EqualTo" /\ 0 < computed /\ computed < expected THEN "NeedsMoreItems"
    ELSE IF operator \in {"LessThan", "LessThanOrEqualTo"} THEN "FailedInvariant"
    ELSE "Empty"

\* evaluate_with_courses, reporting in-progress courses as pending before it tests
\* whether the assertion passes without them
evaluate_with_courses_PendingFirst(a, items) ==
    LET calculated_result == apply_clause_to_assertion_with_courses(a, items)
        operator_result == apply_operator(calculated_result.value, a.operator, a.expected)
        has_ip_courses == AnyOf(calculated_result.courses, "is_in_progress")
    IN  IF operator_result
        THEN IF a.treat_in_progress_as_pass
             THEN Evaluated("Done", calculated_result)
             ELSE IF has_ip_courses
             THEN PendingStatus(calculated_result)
             ELSE Evaluated("Done", calculated_result)
        ELSE Evaluated(UnsatisfiedStatus(a.operator, calculated_result.value, a.expected),
                       calculated_result)

evaluate_with_courses(a, items) ==
    LET calculated_result == apply_clause_to_assertion_with_courses(a, items)
        operator_result == apply_operator(calculated_result.value, a.operator, a.expected)
        has_ip_courses == AnyOf(calculated_result.courses, "is_in_progress")
    IN  IF operator_result
        THEN IF a.treat_in_progress_as_pass \/ OperatorResultNoIp(a, items, calculated_result)
             THEN Evaluated("Done", calculated_result)
             ELSE IF has_ip_courses
             THEN PendingStatus(calculated_result)
             ELSE Evaluated("Done", calculated_result)
        ELSE Evaluated(UnsatisfiedStatus(a.operator, calculated_result.value, a.expected),
                       calculated_result)

evaluate_with_areas(a, items) ==
    LET calculated_result == apply_clause_to_assertion_with_areas(a, items)
        computed_value == calculated_result.value
        operator_result == apply_operator(computed_value, a.operator, a.expected)
    IN  IF operator_result
        THEN Evaluated("Done", calculated_result)
        ELSE IF a.operator = "GreaterThan" /\ 0 < computed_value /\ computed_value <= a.expected
        THEN Evaluated("NeedsMoreItems", calculated_result)
        ELSE IF a.operator = "GreaterThanOrEqualTo" /\ 0 < computed_value /\ computed_value < a.expected
        THEN Evaluated("NeedsMoreItems", calculated_result)
        ELSE IF a.operator = "EqualTo" /\ 0 < computed_value /\ computed_value < a.expected
        THEN Evaluated("NeedsMoreItems", calculated_result)
        ELSE IF a.operator \in {"LessThan", "LessThanOrEqualTo"}
        THEN Evaluated("FailedInvariant", calculated_result)
        ELSE Evaluated("Empty", calculated_result)

evaluate_with_items(a, items) ==
    LET calculated_result == apply_clause_to_assertion_with_data(a, items)
        computed_value == calculated_result.value
        operator_result == apply_operator(computed_value, a.operator, a.expected)
    IN  IF operator_result
        THEN Evaluated("Done", calculated_result)
        ELSE IF a.operator = "GreaterThan" /\ 0 < computed_value /\ computed_value <= a.expected
        THEN Evaluated("NeedsMoreItems", calculated_result)
        ELSE IF a.operator = "GreaterThanOrEqualTo" /\ 0 < computed_value /\ computed_value < a.expected
        THEN Evaluated("NeedsMoreItems", calculated_result)
        ELSE IF a.operator = "EqualTo" /\ 0 < computed_value /\ computed_value < a.expected
        THEN Evaluated("NeedsMoreItems", calculated_result)
        ELSE IF a.operator \in {"LessThan", "LessThanOrEqualTo"}
        THEN Evaluated("FailedInvariant", calculated_result)
        ELSE Evaluated("Empty", calculated_result)

\* Assertion.evaluate: dispatch on the data type
Assertion_evaluate(a, items) ==
    IF a.data_type = "Course" THEN evaluate_with_courses(a, items)
    ELSE IF a.data_type = "Area" THEN evaluate_with_areas(a, items)
    ELSE IF a.data_type \in {"MusicPerformance", "Recital"} THEN evaluate_with_items(a, items)
    ELSE Raised("TypeError", AppliedClauseResult(0, <<>>))

----------------------------------------------------------------------------
(* The assertions' specification *)

\* the assertions load_single_assertion builds
Assertions ==
    { [data_type |-> dt, key |-> key, operator |-> op, expected |-> e,
       treat_in_progress_as_pass |-> tip] :
        dt \in DataTypes, key \in {"count(courses)", "sum(credits)", "count(areas)",
                                   "count(performances)", "count(recitals)"},
        op \in Operators, e \in 0..MaxExpected, tip \in BOOLEAN }

InitAssert ==
    /\ multicountable = <<>>
    /\ claims = EmptyLedger
    /\ last = [op |-> "init"]
    /\ assertion \in { a \in Assertions : a.key \in ActionsOf(a.data_type) }
    /\ value \in SeqUpTo(ItemsOf(assertion.data_type), MaxItems)
    /\ result = NotEvaluated

\* the assertion is evaluated on its items
Evaluate ==
    /\ ~ result.evaluated
    /\ result' = Assertion_evaluate(assertion, value)
    /\ UNCHANGED <<multicountable, claims, last, assertion, value>>

NextAssert ==
    \/ Evaluate

SpecAssert == InitAssert /\ [][NextAssert]_vars

----------------------------------------------------------------------------
(* Assertion.audit_and_resolve, status and rank *)

\* Optional[...]: None, or a value
None == <<>>
Some(x) == <<x>>

\* a rational number, as rank() computes with Decimal
Rat(num, den) == [num |-> num, den |-> den]
ZERO_POINT_OH == Rat(0, 1)
ONE_POINT_OH == Rat(1, 1)

\* Decimal arithmetic on ranks
RatLeq(a, b) == a.num * b.den <= b.num * a.den
RatEq(a, b) == a.num * b.den = b.num * a.den
RatAdd(a, n) == Rat(a.num + n * a.den, a.den)
RatMin(a, b) == IF RatLeq(a, b) THEN a ELSE b

\* resolved / expected, for expected != 0
RatDiv(resolved, expected) ==
    IF expected > 0 THEN Rat(resolved, expected) ELSE Rat(0 - resolved, 0 - expected)

\* the where-clause of an assertion, when it has one: a predicate on the item
WhereCredits(n) == Some([key |-> "credits", expected |-> n])

\* self.where.apply(item)
where_apply(where, item) == item.credits = where[1].expected

\* the Assertion load_single_assertion returns: not evaluated, state Empty,
\* overridden when a waive exception sits on its path
Assertion(path, data_type, key, operator, expected, tip, where, overridden) ==
    [type |-> "assertion", path |-> path, data_type |-> data_type, key |-> key, operator |-> operator,
     expected |-> expected, treat_in_progress_as_pass |-> tip, where |-> where,
     state |-> "Empty", evaluated |-> FALSE, overridden |-> overridden,
     resolved |-> None, inserted |-> <<>>]

\* what a call that raised leaves behind
RaisedError(what) == [type |-> "raised", what |-> what]

\* the courses of ctx.get_insert_exceptions(path), each through forced_course_by_clbid
get_insert_exceptions(ctx, path) == ctx.inserts[path]

\* Assertion.audit_and_resolve(data, ctx)
Assertion_audit_and_resolve(a, data, ctx) ==
    IF a.overridden
    THEN a
    ELSE Bind(IF a.where # None
              THEN SelectSeq(data, LAMBDA item : where_apply(a.where, item))
              ELSE data, LAMBDA filtered :
         Bind(get_insert_exceptions(ctx, a.path), LAMBDA inserts :
         Bind(Assertion_evaluate(a, filtered \o inserts), LAMBDA r :
              IF r.raised # "none"
              THEN RaisedError(r.raised)
              ELSE [a EXCEPT !.evaluated = TRUE,
                             !.state = r.status,
                             !.resolved = Some(r.resolved),
                             !.inserted = inserts])))

\* Assertion.status
Assertion_status(a) == a.state

\* what rank() returns: (rank, max_rank), or the assertion it raised
RankOf(rank, max_rank) == [raised |-> "none", rank |-> rank, max_rank |-> max_rank]
RankRaised(what) == [raised |-> what, rank |-> ZERO_POINT_OH, max_rank |-> ZERO_POINT_OH]

Assertion_rank(a) ==
    IF a.state \in {"Done", "Waived"} THEN RankOf(ONE_POINT_OH, ONE_POINT_OH)
    ELSE IF a.resolved = None THEN RankRaised("AssertionError")
    ELSE IF a.operator \in {"LessThan", "LessThanOrEqualTo"} THEN RankOf(ZERO_POINT_OH, ONE_POINT_OH)
    ELSE IF a.expected # 0
    THEN RankOf(RatMin(ONE_POINT_OH, RatDiv(a.resolved[1], a.expected)), ONE_POINT_OH)
    ELSE RankOf(ZERO_POINT_OH, ONE_POINT_OH)

----------------------------------------------------------------------------
(* ConditionalAssertion *)

\* a conditional assertion, of whose loaded condition only the result is read
ConditionalAssertion(condition, when_true, when_false) ==
    [type |-> "assertion--if", condition |-> condition,
     when_true |-> when_true, when_false |-> when_false]

\* ConditionalAssertion.audit_and_resolve, auditing both branches
ConditionalAssertion_audit_and_resolve_Both(c, data, ctx) ==
    IF c.condition.result = None
    THEN RaisedError("conditional assertion condition not evaluated!")
    ELSE Bind(Assertion_audit_and_resolve(c.when_true, data, ctx), LAMBDA when_true :
              IF when_true.type = "raised" THEN when_true
              ELSE IF c.when_false = None
              THEN [c EXCEPT !.when_true = when_true]
              ELSE Bind(Assertion_audit_and_resolve(c.when_false[1], data, ctx), LAMBDA when_false :
                        IF when_false.type = "raised" THEN when_false
                        ELSE [c EXCEPT !.when_true = when_true, !.when_false = Some(when_false)]))

\* ConditionalAssertion.audit_and_resolve, taking a condition without a result for
\* a false one
ConditionalAssertion_audit_and_resolve_NoneAsFalse(c, data, ctx) ==
    IF c.condition.result = Some(TRUE)
    THEN Bind(Assertion_audit_and_resolve(c.when_true, data, ctx), LAMBDA when_true :
              IF when_true.type = "raised" THEN when_true
              ELSE [c EXCEPT !.when_true = when_true])
    ELSE IF c.when_false # None
    THEN Bind(Assertion_audit_and_resolve(c.when_false[1], data, ctx), LAMBDA when_false :
              IF when_false.type = "raised" THEN when_false
              ELSE [c EXCEPT !.when_false = Some(when_false)])
    ELSE c

\* ConditionalAssertion.audit_and_resolve(data, ctx)
ConditionalAssertion_audit_and_resolve(c, data, ctx) ==
    IF c.condition.result = Some(TRUE)
    THEN Bind(Assertion_audit_and_resolve(c.when_true, data, ctx), LAMBDA when_true :
              IF when_true.type = "raised" THEN when_true
              ELSE [c EXCEPT !.when_true = when_true])
    ELSE IF c.condition.result = Some(FALSE)
    THEN IF c.when_false # None
         THEN Bind(Assertion_audit_and_resolve(c.when_false[1], data, ctx), LAMBDA when_false :
                   IF when_false.type = "raised" THEN when_false
                   ELSE [c EXCEPT !.when_false = Some(when_false)])
         ELSE c
    ELSE RaisedError("conditional assertion condition not evaluated!")

\* ConditionalAssertion.status
ConditionalAssertion_status(c) ==
    IF c.condition.result = Some(TRUE) THEN Assertion_status(c.when_true)
    ELSE IF c.condition.result = Some(FALSE) /\ c.when_false # None
    THEN Assertion_status(c.when_false[1])
    ELSE "Empty"

\* ConditionalAssertion.rank
ConditionalAssertion_rank(c) ==
    IF c.condition.result = Some(TRUE) THEN Assertion_rank(c.when_true)
    ELSE IF c.condition.result = Some(FALSE) /\ c.when_false # None
    THEN Assertion_rank(c.when_false[1])
    ELSE RankOf(ZERO_POINT_OH, ONE_POINT_OH)

----------------------------------------------------------------------------
(* BaseRequirementRule *)

PassingStatuses == {"Done", "Waived", "PendingCurrent", "PendingRegistered", "PendingApproval"}

\* the result of a requirement's body, as the requirement reads it
Body(status, rank, max_rank, body_claims) ==
    [status |-> status, rank |-> rank, max_rank |-> max_rank, claims |-> body_claims]

Requirement(body, is_audited, overridden, in_gpa) ==
    [type |-> "requirement", result |-> body, is_audited |-> is_audited,
     overridden |-> overridden, in_gpa |-> in_gpa]

\* Base.waived
Base_waived(r) == r.overridden

\* Base.status
Base_status(r) == IF Base_waived(r) THEN "Waived" ELSE "Empty"

\* BaseRequirementRule.status
BaseRequirementRule_status(r) ==
    IF r.result = None THEN Base_status(r)
    ELSE IF r.is_audited THEN "PendingApproval"
    ELSE r.result[1].status

\* BaseRequirementRule.rank
BaseRequirementRule_rank(r) ==
    IF r.is_audited /\ Base_waived(r) THEN RankOf(Rat(1, 1), Rat(1, 1))
    ELSE IF r.result = None THEN RankOf(Rat(0, 1), Rat(1, 1))
    ELSE IF BaseRequirementRule_status(r) \in PassingStatuses
    THEN RankOf(RatAdd(r.result[1].rank, 1), RatAdd(r.result[1].max_rank, 1))
    ELSE RankOf(r.result[1].rank, r.result[1].max_rank)

\* BaseRequirementRule.claims
BaseRequirementRule_claims(r) ==
    IF r.is_audited \/ r.result = None THEN <<>> ELSE r.result[1].claims

\* BaseRequirementRule.claims_for_gpa
BaseRequirementRule_claims_for_gpa(r) ==
    IF r.in_gpa /\ r.result # None /\ ~ r.is_audited THEN r.result[1].claims ELSE <<>>

----------------------------------------------------------------------------
(* The audit's specification: assertions, conditional assertions, requirements *)

\* the insert exceptions of the context: one enrolled course forced into the
\* assertion at `path`, none at the other paths
InsertAt(path) ==
    [inserts |-> [p \in {".assert", "/t.assert", "/f.assert"} |->
                    IF p = path THEN << CourseItem(TRUE, TRUE, FALSE, FALSE, 1) >> ELSE <<>>]]
NoInserts == InsertAt("none")

\* the loaded objects that are audited: the assertions of a rule (their expected
\* value may have been lowered below zero by a "- 1" change), conditional
\* assertions over a condition and one or two branches, requirements over the
\* result of a body or over none
AuditSubjects ==
    LET Branches(path) ==
            { Assertion(path, "Course", "count(courses)", op, e, FALSE, None, ov) :
                op \in {"GreaterThanOrEqualTo", "LessThan"}, e \in {2, 4}, ov \in BOOLEAN }
        Attempt(rule, clbid) == ClaimAttempt(Claim(rule, clbid, <<"$">>, Elective), {}, FALSE)
        Bodies ==
            { Body("Done", Rat(1, 1), Rat(1, 1), << Attempt("r1", "c1") >>),
              Body("PendingCurrent", Rat(1, 1), Rat(1, 1), << Attempt("r1", "c1") >>),
              Body("NeedsMoreItems", Rat(1, 2), Rat(1, 1), << Attempt("r2", "c2") >>),
              Body("Empty", Rat(0, 1), Rat(1, 1), <<>>) }
    IN  { Assertion(".assert", "Course", key, op, e, tip, where, ov) :
            key \in {"count(courses)", "sum(credits)"}, op \in Operators, e \in (0 - 1)..MaxExpected,
            tip \in BOOLEAN, where \in {None, WhereCredits(1)}, ov \in BOOLEAN }
        \cup
        { ConditionalAssertion([result |-> cr], t, f) :
            cr \in {None, Some(TRUE), Some(FALSE)},
            t \in Branches("/t.assert"),
            f \in {None} \cup { Some(b) : b \in Branches("/f.assert") } }
        \cup
        { Requirement(body, is_audited, ov, in_gpa) :
            body \in {None} \cup { Some(b) : b \in Bodies },
            is_audited \in BOOLEAN, ov \in BOOLEAN, in_gpa \in BOOLEAN }

\* the input of the audited object: the rule's courses (completed with one credit
\* or two, enrolled this term, registered for a future term) and the context
InputsOf(subject) ==
    IF subject.type = "requirement"
    THEN { [data |-> <<>>, ctx |-> NoInserts] }
    ELSE { [data |-> d, ctx |-> c] :
             d \in SeqUpTo({ CourseItem(FALSE, FALSE, FALSE, FALSE, 1),
                             CourseItem(FALSE, FALSE, FALSE, FALSE, 2),
                             CourseItem(TRUE, TRUE, FALSE, FALSE, 1),
                             CourseItem(TRUE, FALSE, TRUE, FALSE, 1) }, MaxAudited),
             c \in {NoInserts} \cup
                   { InsertAt(p) : p \in IF subject.type = "assertion"
                                         THEN {".assert"}
                                         ELSE {"/t.assert", "/f.assert"} } }

InitAudit ==
    /\ multicountable = <<>>
    /\ claims = EmptyLedger
    /\ last = [op |-> "init"]
    /\ assertion \in AuditSubjects
    /\ value \in InputsOf(assertion)
    /\ result = NotEvaluated

\* what the caller reads off the object an audit returned
Report(op, r, status, rank) ==
    IF r.type = "raised"
    THEN [op |-> op, raised |-> TRUE, status |-> "none", rank |-> RankRaised(r.what)]
    ELSE [op |-> op, raised |-> FALSE, status |-> status, rank |-> rank]

\* an assertion is audited, and its status and rank are read
AuditAssertion ==
    /\ last.op = "init"
    /\ assertion.type = "assertion"
    /\ \E r \in { Assertion_audit_and_resolve(assertion, value.data, value.ctx) } :
          /\ result' = r
          /\ last' = Report("audit_and_resolve", r,
                            IF r.type = "raised" THEN "none" ELSE Assertion_status(r),
                            IF r.type = "raised" THEN RankRaised(r.what) ELSE Assertion_rank(r))
    /\ UNCHANGED <<multicountable, claims, assertion, value>>

\* a conditional assertion is audited, and its status and rank are read
AuditConditional ==
    /\ last.op = "init"
    /\ assertion.type = "assertion--if"
    /\ \E r \in { ConditionalAssertion_audit_and_resolve(assertion, value.data, value.ctx) } :
          /\ result' = r
          /\ last' = Report("audit_and_resolve", r,
                            IF r.type = "raised" THEN "none" ELSE ConditionalAssertion_status(r),
                            IF r.type = "raised" THEN RankRaised(r.what) ELSE ConditionalAssertion_rank(r))
    /\ UNCHANGED <<multicountable, claims, assertion, value>>

\* a requirement's status, rank and claims are read
ReportRequirement ==
    /\ last.op = "init"
    /\ assertion.type = "requirement"
    /\ result' = [type |-> "report",
                  claims |-> BaseRequirementRule_claims(assertion),
                  claims_for_gpa |-> BaseRequirementRule_claims_for_gpa(assertion)]
    /\ last' = [op |-> "report", raised |-> FALSE,
                status |-> BaseRequirementRule_status(assertion),
                rank |-> BaseRequirementRule_rank(assertion)]
    /\ UNCHANGED <<multicountable, claims, assertion, value>>

SpecAudit == InitAudit /\ [][AuditAssertion \/ AuditConditional \/ ReportRequirement]_vars

----------------------------------------------------------------------------
(* Properties of the claim ledger *)

\* every one of `clauses` has a member of `clauseset` that is its subset
Covers(clauseset, clauses) ==
    \A p \in clauses : \E i \in DOMAIN clauseset : is_subset(clauseset[i], p)

\* the clauses the claims of a set were made under
ClausesOf(stored) == { cl.value : cl \in stored }

\* the last operation was a make_claim call that went past the allow_claimed exit
Arbitrated ==
    /\ last.op = "make_claim"
    /\ ~ last.allow_claimed
    /\ ~ (last.clause.type = "course" /\ last.clause.allow_claimed)

\* C1: after any sequence of make_claim calls from an empty ledger, a clbid whose
\* claims no single clauseset of multicountable covers (so every clbid when
\* multicountable is empty) holds at most one admitted claim.
C1_AtMostOneClaimUnlessCovered ==
    \A k \in Clbids :
        (~ \E j \in DOMAIN multicountable : Covers(multicountable[j], ClausesOf(claims[k])))
            => Cardinality(claims[k]) <= 1

\* C1 witness: under a non-empty multicountable, a course holds one claim that no
\* clauseset covers, and the make_claim call that ran last for it was rejected.
C1_Witness ==
    /\ Arbitrated
    /\ multicountable # <<>>
    /\ last.attempt.did_fail
    /\ Cardinality(claims[last.course.clbid]) = 1
    /\ ~ \E j \in DOMAIN multicountable :
           Covers(multicountable[j], ClausesOf(claims[last.course.clbid]))

\* C2: a make_claim call with allow_claimed=true, or for a course rule whose
\* allow_claimed is true, or made by the audit of a forced course solution,
\* returns a non-failed attempt with no conflict and leaves the ledger as it was.
C2_AllowClaimedLeavesLedger ==
    /\ ( /\ last.op = "make_claim"
         /\ last.allow_claimed \/ (last.clause.type = "course" /\ last.clause.allow_claimed) )
       => /\ ~ last.attempt.did_fail
          /\ last.attempt.conflict_with = {}
          /\ claims = last.before
    /\ ( /\ last.op = "audit"
         /\ last.result.has_claim_attempt
         /\ last.solution.forced \/ last.solution.allow_claimed )
       => /\ ~ last.result.claim_attempt.did_fail
          /\ last.result.claim_attempt.conflict_with = {}
          /\ claims = last.before

\* C2 witness: a course rule with allow_claimed, called with allow_claimed=false,
\* claimed a course that already carried a claim.
C2_Witness ==
    /\ last.op = "make_claim"
    /\ ~ last.allow_claimed
    /\ last.clause.type = "course"
    /\ last.clause.allow_claimed
    /\ last.before[last.course.clbid] # {}
    /\ ~ last.attempt.did_fail

\* C3: whenever make_claim rejects a claim, conflict_with is the whole, non-empty
\* set of claims the ledger held for that clbid before the call, and the ledger is
\* unchanged.
C3_RejectionReportsPriorClaims ==
    (last.op = "make_claim" /\ last.attempt.did_fail)
        => /\ last.attempt.conflict_with = last.before[last.course.clbid]
           /\ last.attempt.conflict_with # {}
           /\ claims = last.before

\* C3 witness: a claim was rejected for a course that held two claims.
C3_Witness ==
    /\ last.op = "make_claim"
    /\ last.attempt.did_fail
    /\ Cardinality(last.before[last.course.clbid]) = 2

\* the positions in multicountable of the clausesets that cover the prior clauses
\* together with the new clause of the last make_claim call
CoveringPositions ==
    { j \in DOMAIN multicountable :
        Covers(multicountable[j],
               ClausesOf(last.before[last.course.clbid]) \cup {last.attempt.claim.value}) }

\* the members of a clauseset that are a subset of no prior clause
Unused(clauseset, prior) ==
    { i \in DOMAIN clauseset : ~ \E p \in ClausesOf(prior) : is_subset(clauseset[i], p) }

\* C4: when the course already has prior claims, the clauseset used is the first,
\* in the list order of multicountable, that covers every prior clause together
\* with the new one: the claim fails when no clauseset covers them all, and
\* otherwise exactly when that first clauseset has no unused member. With
\* [[elective, post1800], [elective, war]], a prior claim under post1800 makes a
\* claim under war fail.
C4_FirstCoveringClausesetDecides ==
    (Arbitrated /\ last.before[last.course.clbid] # {})
        => /\ CoveringPositions = {} => last.attempt.did_fail
           /\ CoveringPositions # {} =>
                LET first == CHOOSE j \in CoveringPositions : \A m \in CoveringPositions : j <= m
                IN  last.attempt.did_fail
                      <=> Unused(multicountable[first], last.before[last.course.clbid]) = {}
           /\ ( /\ multicountable = << <<Elective, Post1800>>, <<Elective, War>> >>
                /\ ClausesOf(last.before[last.course.clbid]) = {Post1800}
                /\ last.attempt.claim.value = War )
              => last.attempt.did_fail

\* C4 witness: two clausesets cover the prior clauses and the new one; the first has
\* no unused member left while the second has, and the claim was rejected.
C4_Witness ==
    /\ Arbitrated
    /\ Cardinality(CoveringPositions) = 2
    /\ \E j \in CoveringPositions :
          Unused(multicountable[j], last.before[last.course.clbid]) # {}
    /\ last.attempt.did_fail

\* C5: for any course, the number of claims admitted into the ledger never exceeds
\* the number of clauses of a multicountable clauseset that covers them (a third
\* claim against a two-clause clauseset is rejected, whatever the claimant paths
\* and the clauses chosen among those the clauseset covers).
C5_ClaimsWithinClausesetSize ==
    \A k \in Clbids :
        Cardinality(claims[k]) >= 2
            => \E j \in DOMAIN multicountable :
                  /\ Covers(multicountable[j], ClausesOf(claims[k]))
                  /\ Cardinality(claims[k]) <= Len(multicountable[j])

\* the solution audited last is that of a course rule with none of the options
\* that bypass the ledger: not overridden, not forced, not allow_claimed, not
\* from_claimed
PlainAudit ==
    /\ last.op = "audit"
    /\ ~ last.solution.overridden
    /\ ~ last.solution.forced
    /\ ~ last.solution.allow_claimed
    /\ ~ last.solution.from_claimed

\* C6: auditing a course rule. When no transcript course matches, no claim is
\* attempted and the ledger is unchanged; when a course matches and is unclaimed,
\* exactly one claim, for that course's clbid, is recorded and the attempt
\* succeeds; when the matched course is already exclusively claimed (no
\* multicountable clauseset applies to the rule's course clause), the attempt
\* fails, and a failed attempt is attached to the result with the prior claims as
\* its conflict and the ledger unchanged.
C6_CourseRuleAudit ==
    PlainAudit =>
        LET sol == last.solution
            k == sol.matched_course.clbid
            attempt == last.result.claim_attempt
            course_clause == SingleClause("course", "EqualTo", {sol.course})
        IN  /\ ~ last.raised
            /\ sol.matched_course = NoCourse
                 => ~ last.result.has_claim_attempt /\ claims = last.before
            /\ (sol.matched_course # NoCourse /\ last.before[k] = {})
                 => /\ last.result.has_claim_attempt
                    /\ ~ attempt.did_fail
                    /\ attempt.claim = Claim(sol.matched_course.crsid, k, sol.path, course_clause)
                    /\ claims = [last.before EXCEPT ![k] = {attempt.claim}]
            /\ ( /\ sol.matched_course # NoCourse
                 /\ last.before[k] # {}
                 /\ ~ \E j \in DOMAIN multicountable : Covers(multicountable[j], {course_clause}) )
                 => last.result.has_claim_attempt /\ attempt.did_fail
            /\ (last.result.has_claim_attempt /\ attempt.did_fail)
                 => /\ attempt.conflict_with = last.before[k]
                    /\ attempt.conflict_with # {}
                    /\ claims = last.before

\* C6 witness: a plain course rule was audited against a course another rule had
\* claimed, and the failed attempt came back.
C6_Witness ==
    /\ PlainAudit
    /\ last.result.has_claim_attempt
    /\ last.result.claim_attempt.did_fail
    /\ \E cl \in last.before[last.solution.matched_course.clbid] :
          cl.claimant_path # last.solution.path

\* C7: the condition query of an $if is solved inside fresh_claims(): the ledger
\* after load_clause returns equals the ledger before the call, whatever claims
\* the condition's solver made on the way.
C7_LoadClauseRestoresLedger ==
    last.op = "load_clause" => claims = last.before

\* C7 witness: load_clause ran on a ledger that held a claim, and the solvers of
\* its $if conditions recorded claims of their own.
C7_Witness ==
    /\ last.op = "load_clause"
    /\ last.data.kind = "$if"
    /\ last.claimed >= 2
    /\ last.before # EmptyLedger

----------------------------------------------------------------------------
(* Properties of the assertions *)

\* the value an assertion's key reduces its items to
ReducedValue(a, items) ==
    IF a.key = "sum(credits)" THEN SumCredits(items, 1) ELSE Len(items)

\* the assertion's operator holds on the reduced value of the items
HoldsOn(a, items) ==
    apply_operator(ReducedValue(a, items), a.operator, a.expected)

WasEvaluated == result.evaluated

OnlyWithInProgress ==
    /\ assertion.data_type = "Course"
    /\ HoldsOn(assertion, value)
    /\ ~ HoldsOn(assertion, SelectSeq(value, not_in_progress))
    /\ ~ assertion.treat_in_progress_as_pass

\* C8: a course assertion resolves to Done exactly when its operator holds on the
\* reduced value and, besides, no matched course is in progress, or the operator
\* still holds once the in-progress courses are removed, or
\* treat_in_progress_as_pass is set.
C8_DoneExactlyWhenPassing ==
    (WasEvaluated /\ assertion.data_type = "Course") =>
        ( (result.status = "Done")
          <=> /\ HoldsOn(assertion, value)
              /\ \/ ~ AnyOf(value, "is_in_progress")
                 \/ HoldsOn(assertion, SelectSeq(value, not_in_progress))
                 \/ assertion.treat_in_progress_as_pass )

\* in-progress courses were matched, the flag is off, and the assertion is Done
\* because the completed courses alone satisfy it
C8_Witness ==
    /\ WasEvaluated
    /\ assertion.data_type = "Course"
    /\ AnyOf(value, "is_in_progress")
    /\ ~ assertion.treat_in_progress_as_pass
    /\ HoldsOn(assertion, SelectSeq(value, not_in_progress))
    /\ result.status = "Done"

\* C9: a course assertion whose operator holds only because in-progress courses
\* are counted, with treat_in_progress_as_pass off, is never Done; it is
\* PendingRegistered when any matched course is registered for a future term, and
\* PendingCurrent when none is and some matched course is enrolled or incomplete.
C9_PendingNeverDone ==
    (WasEvaluated /\ OnlyWithInProgress) =>
        /\ result.status # "Done"
        /\ AnyOf(value, "is_in_progress_in_future") => result.status = "PendingRegistered"
        /\ ( /\ ~ AnyOf(value, "is_in_progress_in_future")
             /\ AnyOf(value, "is_in_progress_this_term") \/ AnyOf(value, "is_incomplete") )
              => result.status = "PendingCurrent"

\* an enrolled course and a registered one were both needed: PendingRegistered
C9_Witness ==
    /\ WasEvaluated
    /\ OnlyWithInProgress
    /\ AnyOf(value, "is_in_progress_this_term")
    /\ AnyOf(value, "is_in_progress_in_future")
    /\ result.status = "PendingRegistered"

Increasing == {"GreaterThan", "GreaterThanOrEqualTo", "EqualTo"}
Decreasing == {"LessThan", "LessThanOrEqualTo"}

\* C10 as stated: when the operator is false on the reduced value, the status is
\* NeedsMoreItems exactly when the operator is GT, GTE or EQ and
\* 0 < computed < expected, FailedInvariant exactly when the operator is LT or
\* LTE, and Empty in every other case, whatever the data type.
C10_StatusWhenOperatorFalse ==
    (WasEvaluated /\ ~ HoldsOn(assertion, value)) =>
        LET computed == ReducedValue(assertion, value)
            needs_more == /\ assertion.operator \in Increasing
                          /\ 0 < computed
                          /\ computed < assertion.expected
            failed == assertion.operator \in Decreasing
        IN  /\ (result.status = "NeedsMoreItems") <=> needs_more
            /\ (result.status = "FailedInvariant") <=> failed
            /\ (result.status = "Empty") <=> (~ needs_more /\ ~ failed)

\* C10, amended: when the operator is false on the reduced value, the status is
\* NeedsMoreItems exactly when 0 < computed and either the operator is GTE or EQ
\* and computed < expected, or the operator is GT and computed <= expected; it is
\* FailedInvariant exactly when the operator is LT or LTE; it is Empty in every
\* other case, whatever the data type.
C10_StatusWhenOperatorFalseAmended ==
    (WasEvaluated /\ ~ HoldsOn(assertion, value)) =>
        LET computed == ReducedValue(assertion, value)
            needs_more == /\ 0 < computed
                          /\ \/ /\ assertion.operator \in {"GreaterThanOrEqualTo", "EqualTo"}
                                /\ computed < assertion.expected
                             \/ /\ assertion.operator = "GreaterThan"
                                /\ computed <= assertion.expected
            failed == assertion.operator \in Decreasing
        IN  /\ (result.status = "NeedsMoreItems") <=> needs_more
            /\ (result.status = "FailedInvariant") <=> failed
            /\ (result.status = "Empty") <=> (~ needs_more /\ ~ failed)

\* GT with exactly the expected number of items: NeedsMoreItems
C10_Witness ==
    /\ WasEvaluated
    /\ assertion.operator = "GreaterThan"
    /\ ReducedValue(assertion, value) = assertion.expected
    /\ assertion.expected > 0
    /\ result.status = "NeedsMoreItems"

\* an in-progress course that is neither enrolled, nor registered, nor incomplete
Unmarked(c) ==
    /\ c.is_in_progress
    /\ ~ c.is_in_progress_this_term
    /\ ~ c.is_in_progress_in_future
    /\ ~ c.is_incomplete

\* C19: on well-formed courses (every in-progress course is enrolled this term,
\* registered for a future term, or incomplete) evaluate_with_courses raises
\* nothing; 'unreachable' is raised on no input at all; an assertion whose
\* operator is false ends Empty, NeedsMoreItems or FailedInvariant; and the
\* internal assertion fails only when some in-progress course has none of the
\* three marks.
C19_NoRaiseOnWellFormedCourses ==
    (WasEvaluated /\ assertion.data_type = "Course") =>
        /\ (\A i \in DOMAIN value : ~ Unmarked(value[i])) => result.raised = "none"
        /\ result.raised # "unreachable"
        /\ ~ HoldsOn(assertion, value)
              => /\ result.raised = "none"
                 /\ result.status \in {"Empty", "NeedsMoreItems", "FailedInvariant"}
        /\ result.raised = "AssertionError" => \E i \in DOMAIN value : Unmarked(value[i])

\* an incomplete course that is neither enrolled nor registered was needed for the
\* operator to hold, and the evaluation ended PendingCurrent without raising
C19_Witness ==
    /\ WasEvaluated
    /\ OnlyWithInProgress
    /\ AnyOf(value, "is_incomplete")
    /\ ~ AnyOf(value, "is_in_progress_this_term")
    /\ ~ AnyOf(value, "is_in_progress_in_future")
    /\ \A i \in DOMAIN value : ~ Unmarked(value[i])
    /\ result.raised = "none"
    /\ result.status = "PendingCurrent"

\* C20: whenever the ledger holds two or more claims for one clbid, one clauseset
\* of multicountable covers them all: each of those claims' clauses has a member
\* of that clauseset that is its subset.
C20_SharedClaimsAreCovered ==
    \A k \in Clbids :
        Cardinality(claims[k]) >= 2
            => \E j \in DOMAIN multicountable :
                   \A cl \in claims[k] :
                       \E i \in DOMAIN multicountable[j] : is_subset(multicountable[j][i], cl.value)

\* a course holds two claims made under different clauses
C20_Witness ==
    \E k \in Clbids :
        \E c1 \in claims[k], c2 \in claims[k] : c1.value # c2.value

----------------------------------------------------------------------------
(* Loading: predicate expressions, value changes, the expected value *)

\* the PredicateExpressionFunctions evaluated at load time, of those modelled:
\* has-declared-area-code, has-course and requirement-is-satisfied
STATIC_PREDICATE_FUNCTIONS_All == {"has-declared-area-code", "has-course", "requirement-is-satisfied"}
STATIC_PREDICATE_FUNCTIONS == {"has-declared-area-code", "has-course"}

\* ctx.has_declared_area_code(argument), ctx.has_course(argument)
evaluate_predicate_function(function, argument, ctx) ==
    IF function = "has-declared-area-code" THEN argument \in ctx.area_codes
    ELSE argument \in ctx.courses

\* Python's truth value: of an Optional[bool], and of an expression object
Truthy(optional) == optional = Some(TRUE)
ObjectIsTruthy(object) == TRUE

\* load_predicate_expression(data, ctx), with the load() of the four classes
RECURSIVE load_predicate_expression(_, _)
load_predicate_expression(data, ctx) ==
    IF data.type = "$and"
    THEN Bind([i \in DOMAIN data.operands |-> load_predicate_expression(data.operands[i], ctx)],
              LAMBDA clauses :
              [type |-> "pred-expr--and", expressions |-> clauses,
               result |-> Some(\A i \in DOMAIN clauses : Truthy(clauses[i].result))])
    ELSE IF data.type = "$or"
    THEN Bind([i \in DOMAIN data.operands |-> load_predicate_expression(data.operands[i], ctx)],
              LAMBDA clauses :
              [type |-> "pred-expr--or", expressions |-> clauses,
               result |-> Some(\E i \in DOMAIN clauses : Truthy(clauses[i].result))])
    ELSE IF data.type = "$not"
    THEN Bind(load_predicate_expression(data.operand, ctx), LAMBDA expression :
              [type |-> "pred-expr--not", expression |-> expression, result |-> expression.result])
    ELSE [type |-> "pred-expr", function |-> data.function, argument |-> data.argument,
          result |-> IF data.function \in STATIC_PREDICATE_FUNCTIONS
                     THEN Some(evaluate_predicate_function(data.function, data.argument, ctx))
                     ELSE None]

\* expression.check(ctx): what it returns, or that it raised the TypeError of a
\* function that is not static. A compound tests the objects its sub-expressions'
\* evaluate() returns, all() and any() stopping at the first decisive one
RECURSIVE check(_, _)
check(e, ctx) ==
    IF e.type = "pred-expr--and"
    THEN [raised |-> \E i \in DOMAIN e.expressions : check(e.expressions[i], ctx).raised,
          result |-> \A i \in DOMAIN e.expressions : ObjectIsTruthy(e.expressions[i])]
    ELSE IF e.type = "pred-expr--or"
    THEN [raised |-> e.expressions # <<>> /\ check(e.expressions[1], ctx).raised,
          result |-> e.expressions # <<>> /\ ObjectIsTruthy(e.expressions[1])]
    ELSE IF e.type = "pred-expr--not"
    THEN [raised |-> check(e.expression, ctx).raised, result |-> ~ ObjectIsTruthy(e.expression)]
    ELSE IF e.function \in STATIC_PREDICATE_FUNCTIONS
    THEN [raised |-> FALSE, result |-> evaluate_predicate_function(e.function, e.argument, ctx)]
    ELSE [raised |-> TRUE, result |-> FALSE]

\* expression.evaluate(ctx)
evaluate(e, ctx) ==
    Bind(check(e, ctx), LAMBDA c :
         IF c.raised THEN RaisedError("TypeError") ELSE [e EXCEPT !.result = Some(c.result)])

\* ValueChange.load(data, action, ctx)
ValueChange_load(data, action, ctx) ==
    Bind(evaluate(load_predicate_expression(data, ctx), ctx), LAMBDA predicate_key :
         IF predicate_key.type = "raised" THEN predicate_key
         ELSE [type |-> "change", mode |-> action.mode,
               expression |-> predicate_key, amount |-> action.amount])

\* compute_change_diff(changes)
RECURSIVE compute_change_diff(_)
compute_change_diff(changes) ==
    IF changes = <<>> THEN 0
    ELSE Bind(changes[Len(changes)], LAMBDA change :
              compute_change_diff(SubSeq(changes, 1, Len(changes) - 1))
              + (IF ~ Truthy(change.expression.result) THEN 0
                 ELSE IF change.mode = "+" THEN change.amount
                 ELSE 0 - change.amount))

\* load_single_assertion(data, ctx): the assertion's operator, its expected value
\* after the changes and the value exception, the waive exception of its path
load_single_assertion(data, ctx) ==
    Bind([i \in DOMAIN data.changes |->
            ValueChange_load(data.changes[i].cond, data.changes[i].action, ctx)],
         LAMBDA changes :
         IF \E i \in DOMAIN changes : changes[i].type = "raised"
         THEN RaisedError("TypeError")
         ELSE Bind(data.expected + compute_change_diff(changes), LAMBDA expected :
              Assertion(".assert", "Course", data.key, data.operator,
                        IF ctx.value_exception # None THEN ctx.value_exception[1] ELSE expected,
                        FALSE, None, ctx.waive_exception)
              @@ [changes |-> changes]))

\* the expression dictionaries of an area specification: the three functions on
\* one argument each, compounds of them, and compounds of those
ExpressionData ==
    LET And(operands) == [type |-> "$and", operands |-> operands]
        Or(operands) == [type |-> "$or", operands |-> operands]
        Not(operand) == [type |-> "$not", operand |-> operand]
        leaves == { [type |-> "leaf", function |-> "has-declared-area-code", argument |-> "130"],
                    [type |-> "leaf", function |-> "has-course", argument |-> "AMCON 101"],
                    [type |-> "leaf", function |-> "requirement-is-satisfied", argument |-> "Core"] }
        simple == leaves
                    \cup { And(q) : q \in SeqUpTo(leaves, MaxOperands) }
                    \cup { Or(q) : q \in SeqUpTo(leaves, MaxOperands) }
                    \cup { Not(e) : e \in leaves }
    IN  [leaves |-> leaves,
         \* the conditions of $changes: a function, or a compound of at most one
         conditions |-> leaves
                    \cup { And(q) : q \in SeqUpTo(leaves, 1) }
                    \cup { Or(q) : q \in SeqUpTo(leaves, 1) }
                    \cup { Not(e) : e \in leaves },
         all |-> simple
                    \cup { And(<<a, b>>) : a \in simple, b \in leaves }
                    \cup { Or(<<a, b>>) : a \in simple, b \in leaves }
                    \cup { Not(e) : e \in simple }]

\* the assertions of an area specification: $changes is a dictionary of distinct
\* conditions, each with the action "+ 1" or "- 1"
AssertionData ==
    LET entry == [cond : ExpressionData.conditions,
                  action : { [mode |-> "+", amount |-> 1], [mode |-> "-", amount |-> 1] }]
    IN  [type : {"assert"}, key : {"count(courses)"}, operator : {"GreaterThanOrEqualTo"},
         expected : 0..MaxExpected,
         changes : { q \in SeqUpTo(entry, MaxChanges) :
                        \A i, j \in DOMAIN q : q[i].cond = q[j].cond => i = j }]

\* an expression is loaded for a student with declared areas and courses; an
\* assertion for a student with declared areas and the exceptions at its path
InitLoad ==
    /\ multicountable = <<>>
    /\ claims = EmptyLedger
    /\ last = [op |-> "init"]
    /\ \/ /\ assertion \in [type : {"expression"}, data : ExpressionData.all]
          /\ value \in [area_codes : SUBSET {"130"}, courses : SUBSET {"AMCON 101"},
                        value_exception : {None}, waive_exception : {FALSE}]
       \/ /\ assertion \in AssertionData
          /\ value \in [area_codes : SUBSET {"130"}, courses : {{}},
                        value_exception : {None, Some(1)}, waive_exception : BOOLEAN]
    /\ result = NotEvaluated

\* load_predicate_expression on a $if, a condition of $changes or of a rule
LoadExpression ==
    /\ last.op = "init"
    /\ assertion.type = "expression"
    /\ result' = load_predicate_expression(assertion.data, value)
    /\ last' = [op |-> "load_predicate_expression", raised |-> FALSE]
    /\ UNCHANGED <<multicountable, claims, assertion, value>>

\* load_single_assertion on an assertion of the area specification
LoadAssertion ==
    /\ last.op = "init"
    /\ assertion.type = "assert"
    /\ \E r \in {load_single_assertion(assertion, value)} :
         /\ result' = r
         /\ last' = [op |-> "load_single_assertion", raised |-> r.type = "raised"]
    /\ UNCHANGED <<multicountable, claims, assertion, value>>

SpecLoad == InitLoad /\ [][LoadExpression \/ LoadAssertion]_vars

----------------------------------------------------------------------------
(* input_size_range *)

\* range(start, stop), in the order Python yields it
range(start, stop) ==
    [i \in 1..(IF stop > start THEN stop - start ELSE 0) |-> start + i - 1]

\* input_size_range(assertion, maximum): the sizes it yields, in order, for an
\* integer expected value, or the TypeError it raises for any other operator
input_size_range(a, maximum) ==
    LET expected == a.expected
        Max(x, y) == IF x >= y THEN x ELSE y
        Yield(sizes) == [raised |-> FALSE, sizes |-> sizes]
    IN  IF a.operator = "EqualTo" \/ (a.operator = "GreaterThanOrEqualTo" /\ a.at_most)
        THEN IF maximum < expected THEN Yield(<< maximum >>)
             ELSE Yield(range(expected, expected + 1))
        ELSE IF a.operator = "NotEqualTo"
        THEN Yield(range(0, expected) \o range(expected + 1, Max(expected + 1, maximum + 1)))
        ELSE IF a.operator = "GreaterThanOrEqualTo"
        THEN IF maximum < expected THEN Yield(<< maximum >>)
             ELSE Yield(range(expected, Max(expected + 1, maximum + 1)))
        ELSE IF a.operator = "GreaterThan"
        THEN IF maximum < expected THEN Yield(<< maximum >>)
             ELSE Yield(range(expected + 1, Max(expected + 2, maximum + 1)))
        ELSE IF a.operator = "LessThan" THEN Yield(range(0, expected))
        ELSE IF a.operator = "LessThanOrEqualTo" THEN Yield(range(0, expected + 1))
        ELSE [raised |-> TRUE, sizes |-> <<>>]

\* an assertion with an integer expected value, and the number of items at hand
InitRange ==
    /\ multicountable = <<>>
    /\ claims = EmptyLedger
    /\ last = [op |-> "init"]
    /\ assertion \in [type : {"assertion"}, operator : Operators \cup {"In"},
                      expected : 0..MaxExpected, at_most : BOOLEAN]
    /\ value \in 0..MaxAudited
    /\ result = NotEvaluated

\* the solver reads the sizes input_size_range yields
YieldSizes ==
    /\ last.op = "init"
    /\ result' = input_size_range(assertion, value)
    /\ last' = [op |-> "input_size_range"]
    /\ UNCHANGED <<multicountable, claims, assertion, value>>

SpecRange == InitRange /\ [][YieldSizes]_vars

----------------------------------------------------------------------------
(* The server's audit: the result table *)

\* audit, inserting its row without deactivating the rows at hand
audit_KeepingActive(rows, id, student_id, area_code, area_catalog, result_str, link_only) ==
    rows \cup { [id |-> id, student_id |-> student_id, area_code |-> area_code,
                 catalog |-> area_catalog, result |-> result_str, link_only |-> link_only,
                 is_active |-> ~ link_only,
                 revision |-> 1 + Cardinality({ r \in rows : r.student_id = student_id
                                                            /\ r.area_code = area_code })] }

\* audit(...) on a ResultMsg: the rows of the result table after its DELETE, its
\* UPDATE and its INSERT, the new row taking `id`
audit(rows, id, student_id, area_code, area_catalog, result_str, link_only) ==
    LET deleted == IF link_only THEN rows
                   ELSE { r \in rows : ~ ( /\ r.student_id = student_id
                                           /\ r.catalog = area_catalog
                                           /\ r.area_code = area_code
                                           /\ r.result = result_str ) }
        updated == IF link_only THEN deleted
                   ELSE { IF r.student_id = student_id /\ r.area_code = area_code /\ r.is_active
                          THEN [r EXCEPT !.is_active = FALSE] ELSE r : r \in deleted }
        revisions == { r.revision : r \in { x \in updated : x.student_id = student_id
                                                          /\ x.area_code = area_code } }
        max_revision == IF revisions = {} THEN 0
                        ELSE CHOOSE m \in revisions : \A n \in revisions : n <= m
    IN  updated \cup { [id |-> id, student_id |-> student_id, area_code |-> area_code,
                        catalog |-> area_catalog, result |-> result_str, link_only |-> link_only,
                        is_active |-> ~ link_only, revision |-> max_revision + 1] }

\* value is the result table; assertion counts the calls and keeps every revision
\* that was assigned, per student and area
InitServer ==
    /\ multicountable = <<>>
    /\ claims = EmptyLedger
    /\ last = [op |-> "init"]
    /\ assertion = [calls |-> 0, assigned |-> {}]
    /\ value = {}
    /\ result = NotEvaluated

\* one audit call, in its transaction: run() ends with a ResultMsg, or with none
\* and the table is left alone
Audit ==
    /\ assertion.calls < MaxCalls
    /\ \E student_id \in {"s1", "s2"}, area_code \in {"130"}, area_catalog \in {"2019-20", "2020-21"},
          result_str \in {"A", "B", "none"}, link_only \in BOOLEAN :
         \E rows \in { IF result_str = "none" THEN value
                       ELSE audit(value, assertion.calls + 1, student_id, area_code,
                                  area_catalog, result_str, link_only) } :
              /\ value' = rows
              /\ assertion' = [calls |-> assertion.calls + 1,
                               assigned |-> assertion.assigned
                                  \cup { [student_id |-> r.student_id, area_code |-> r.area_code,
                                          revision |-> r.revision] :
                                            r \in { x \in rows : x.id = assertion.calls + 1 } }]
              /\ last' = [op |-> "audit", before |-> value, assigned |-> assertion.assigned,
                          student_id |-> student_id, area_code |-> area_code,
                          link_only |-> link_only, returned |-> result_str # "none"]
    /\ UNCHANGED <<multicountable, claims, result>>

SpecServer == InitServer /\ [][Audit]_vars

----------------------------------------------------------------------------
(* Properties of the audit *)

C12_FullRankOnlyWhenPassing ==
    (last.op \in {"audit_and_resolve", "report"} /\ ~ last.raised /\ last.rank.raised = "none")
        => /\ RatLeq(last.rank.rank, last.rank.max_rank)
           /\ RatEq(last.rank.rank, last.rank.max_rank) => last.status \in PassingStatuses

\* C13: an assertion or a requirement with a waive exception on its path reports
\* status Waived and rank = max_rank = 1, whatever its input, its body and
\* is_audited.
C13_WaivedReportsWaivedAtFullRank ==
    ( /\ last.op \in {"audit_and_resolve", "report"}
      /\ assertion.type \in {"assertion", "requirement"}
      /\ assertion.overridden )
        => /\ ~ last.raised
           /\ last.status = "Waived"
           /\ last.rank.raised = "none"
           /\ RatEq(last.rank.rank, Rat(1, 1))
           /\ RatEq(last.rank.max_rank, Rat(1, 1))

\* C14: ConditionalAssertion.audit_and_resolve audits exactly one branch, when_true
\* if the condition's result is true, when_false if it is false and present: that
\* branch is evaluated (unless waived), the other branch is left as it was loaded,
\* and the conditional's status and rank are those of the audited branch. On three
\* courses, with the condition true and a then-branch `>= 4`, the status is
\* NeedsMoreItems with resolved 3 and expected 4.
C14_ConditionalAuditsOneBranch ==
    (last.op = "audit_and_resolve" /\ assertion.type = "assertion--if" /\ ~ last.raised)
        => /\ assertion.condition.result = Some(TRUE)
                => /\ result.when_true
                        = Assertion_audit_and_resolve(assertion.when_true, value.data, value.ctx)
                   /\ result.when_true.evaluated = ~ assertion.when_true.overridden
                   /\ result.when_false = assertion.when_false
                   /\ last.status = result.when_true.state
                   /\ last.rank = Assertion_rank(result.when_true)
           /\ (assertion.condition.result = Some(FALSE) /\ assertion.when_false # None)
                => /\ result.when_false[1]
                        = Assertion_audit_and_resolve(assertion.when_false[1], value.data, value.ctx)
                   /\ result.when_false[1].evaluated = ~ assertion.when_false[1].overridden
                   /\ result.when_true = assertion.when_true
                   /\ last.status = result.when_false[1].state
                   /\ last.rank = Assertion_rank(result.when_false[1])
           /\ ( /\ assertion.condition.result = Some(TRUE)
                /\ Len(value.data) = 3
                /\ value.ctx = NoInserts
                /\ assertion.when_true.operator = "GreaterThanOrEqualTo"
                /\ assertion.when_true.expected = 4
                /\ ~ assertion.when_true.overridden )
              => /\ last.status = "NeedsMoreItems"
                 /\ result.when_true.resolved = Some(3)
                 /\ result.when_true.expected = 4

\* condition true, `>= 4` then, `>= 2` else, three courses: NeedsMoreItems at 3 of 4,
\* the else-branch not evaluated
C14_Witness ==
    /\ last.op = "audit_and_resolve"
    /\ assertion.type = "assertion--if"
    /\ assertion.condition.result = Some(TRUE)
    /\ Len(value.data) = 3
    /\ value.ctx = NoInserts
    /\ assertion.when_true.operator = "GreaterThanOrEqualTo"
    /\ assertion.when_true.expected = 4
    /\ ~ assertion.when_true.overridden
    /\ assertion.when_false # None
    /\ assertion.when_false[1].operator = "GreaterThanOrEqualTo"
    /\ assertion.when_false[1].expected = 2
    /\ last.status = "NeedsMoreItems"
    /\ result.when_true.resolved = Some(3)
    /\ ~ result.when_false[1].evaluated

\* C15: when the condition is false and there is no when_false branch, what
\* audit_and_resolve returns is a passing placeholder: its status is in
\* PassingStatuses and its rank equals its max_rank.
C15_MissingElseIsPassing ==
    ( /\ last.op = "audit_and_resolve"
      /\ assertion.type = "assertion--if"
      /\ assertion.condition.result = Some(FALSE)
      /\ assertion.when_false = None )
        => /\ ~ last.raised
           /\ last.status \in PassingStatuses
           /\ last.rank.raised = "none"
           /\ RatEq(last.rank.rank, last.rank.max_rank)

\* C18: a requirement with is_audited=true reports PendingApproval whatever its
\* body's status, and when it has no body; its claims() and claims_for_gpa() are
\* empty even when the body holds claims.
C18_AuditedRequirementIsPendingApproval ==
    (last.op = "report" /\ assertion.is_audited)
        => /\ last.status = "PendingApproval"
           /\ result.claims = <<>>
           /\ result.claims_for_gpa = <<>>

----------------------------------------------------------------------------
(* Properties of loading *)

\* C16: the result load_predicate_expression gives a compound expression: a $and
\* is true iff every sub-expression's result is true, a $or iff at least one is, a
\* $not iff the result of its inner expression is false.
C16_CompoundResultsAtLoad ==
    last.op = "load_predicate_expression"
        => /\ result.type = "pred-expr--and"
                => (Truthy(result.result)
                        <=> \A i \in DOMAIN result.expressions : Truthy(result.expressions[i].result))
           /\ result.type = "pred-expr--or"
                => (Truthy(result.result)
                        <=> \E i \in DOMAIN result.expressions : Truthy(result.expressions[i].result))
           /\ result.type = "pred-expr--not"
                => (Truthy(result.result) <=> result.expression.result = Some(FALSE))

\* whether a condition of $changes is true of the student
RECURSIVE ConditionHolds(_, _)
ConditionHolds(data, ctx) ==
    IF data.type = "$and" THEN \A i \in DOMAIN data.operands : ConditionHolds(data.operands[i], ctx)
    ELSE IF data.type = "$or" THEN \E i \in DOMAIN data.operands : ConditionHolds(data.operands[i], ctx)
    ELSE IF data.type = "$not" THEN ~ ConditionHolds(data.operand, ctx)
    ELSE /\ data.function \in STATIC_PREDICATE_FUNCTIONS
         /\ evaluate_predicate_function(data.function, data.argument, ctx)

\* the Add amounts less the Subtract amounts of the entries whose condition is true
RECURSIVE ChangesDue(_, _)
ChangesDue(entries, ctx) ==
    IF entries = <<>> THEN 0
    ELSE ChangesDue(Tail(entries), ctx)
         + (IF ~ ConditionHolds(Head(entries).cond, ctx) THEN 0
            ELSE IF Head(entries).action.mode = "+" THEN Head(entries).action.amount
            ELSE 0 - Head(entries).action.amount)

\* C17: after loading, an assertion's expected value is the specified value plus
\* the Add amounts and minus the Subtract amounts of the changes whose condition is
\* true, changes with a false condition adding nothing; a value exception on the
\* assertion's path replaces the outcome.
C17_ExpectedAfterChanges ==
    (last.op = "load_single_assertion" /\ ~ last.raised)
        => result.expected =
              IF value.value_exception # None
              THEN value.value_exception[1]
              ELSE assertion.expected + ChangesDue(assertion.changes, value)

----------------------------------------------------------------------------
(* Properties of saving and restoring the ledger *)

\* C21: the copy a caller took of the ledger stays what the ledger held when it
\* was copied, whatever make_claim calls follow, also after it was handed to
\* set_claims; set_claims with the copy makes the ledger equal to it; after
\* reset_claims the ledger is empty, and a claim proposed on an empty ledger is
\* admitted.
C21_SnapshotAndRestoreAreExact ==
    /\ value.copy = value.original
    /\ last.op = "set_claims" => claims = value.original
    /\ last.op = "reset_claims" => claims = EmptyLedger
    /\ (last.op = "make_claim" /\ last.before = EmptyLedger)
          => /\ ~ last.attempt.did_fail
             /\ ~ last.allow_claimed => last.attempt.claim \in claims[last.course.clbid]

\* set_claims put back a copy that held a claim, over a ledger to which claims
\* had been added since the copy was taken
C21_Witness ==
    /\ last.op = "set_claims"
    /\ value.original # EmptyLedger
    /\ last.before # value.original
    /\ \A k \in Clbids : value.original[k] \subseteq last.before[k]
    /\ claims = value.original

\* C22: a make_claim call changes the ledger only at the clbid of the proposed
\* course and only by adding the claim it built, whose clbid is that key; the
\* claims admitted before stay, those of other clbids are untouched, and every
\* claim stored under a key has that key as its clbid.
C22_MakeClaimAddsOneClaimAtItsKey ==
    /\ \A k \in Clbids : \A c \in claims[k] : c.clbid = k
    /\ last.op = "make_claim"
          => /\ last.attempt.claim.clbid = last.course.clbid
             /\ \A k \in Clbids \ {last.course.clbid} : claims[k] = last.before[k]
             /\ claims[last.course.clbid]
                    \in { last.before[last.course.clbid],
                          last.before[last.course.clbid] \cup {last.attempt.claim} }

\* a second claim was added to a clbid while the other clbid held a claim
C22_Witness ==
    /\ last.op = "make_claim"
    /\ last.before[last.course.clbid] # {}
    /\ claims[last.course.clbid] # last.before[last.course.clbid]
    /\ \E k \in Clbids \ {last.course.clbid} : claims[k] # {}

----------------------------------------------------------------------------
(* Properties of rank, of a condition without a result, of atoms *)

\* C23: rank() of the assertion audit_and_resolve returned is defined, also for an
\* assertion overridden by a waive exception, and is (1, 1) when the state is Done
\* or Waived, else (0, 1) for LT and LTE, else (0, 1) when expected is 0, else
\* (min(1, resolved/expected), 1).
C23_AssertionRankIsDefined ==
    (last.op = "audit_and_resolve" /\ assertion.type = "assertion" /\ ~ last.raised)
        => /\ last.rank.raised = "none"
           /\ RatEq(last.rank.max_rank, Rat(1, 1))
           /\ RatEq(last.rank.rank,
                    IF result.state \in {"Done", "Waived"} THEN Rat(1, 1)
                    ELSE IF result.operator \in {"LessThan", "LessThanOrEqualTo"} THEN Rat(0, 1)
                    ELSE IF result.expected = 0 THEN Rat(0, 1)
                    ELSE RatMin(Rat(1, 1), RatDiv(result.resolved[1], result.expected)))

\* C24: for every evaluated assertion rank() is (r, 1) with 0 <= r <= 1, whatever
\* the operator, the resolved value and the expected value, an expected value
\* below zero included.
C24_AssertionRankWithinUnitInterval ==
    ( /\ last.op = "audit_and_resolve"
      /\ assertion.type = "assertion"
      /\ ~ last.raised
      /\ result.evaluated )
        => /\ last.rank.raised = "none"
           /\ RatEq(last.rank.max_rank, Rat(1, 1))
           /\ RatLeq(Rat(0, 1), last.rank.rank)
           /\ RatLeq(last.rank.rank, Rat(1, 1))

\* C25: auditing a conditional assertion whose condition has no result raises and
\* returns no object, so neither branch is audited; status() and rank() of the
\* conditional in that state are Empty and (0, 1).
C25_ConditionWithoutResultRaises ==
    ( /\ last.op = "audit_and_resolve"
      /\ assertion.type = "assertion--if"
      /\ assertion.condition.result = None )
        => /\ last.raised
           /\ result = RaisedError("conditional assertion condition not evaluated!")
           /\ ConditionalAssertion_status(assertion) = "Empty"
           /\ ConditionalAssertion_rank(assertion) = RankOf(Rat(0, 1), Rat(1, 1))

\* a conditional assertion with an else-branch and no result of its condition was
\* audited on courses, and the audit raised
C25_Witness ==
    /\ last.op = "audit_and_resolve"
    /\ assertion.type = "assertion--if"
    /\ assertion.condition.result = None
    /\ assertion.when_false # None
    /\ value.data # <<>>
    /\ last.raised

\* C26: a loaded atom whose function is static carries the Boolean the function
\* gives on the context; a requirement-is-satisfied atom is loaded without error
\* with result None, also inside a $not; evaluating it, as loading a value change
\* on it does, raises TypeError.
C26_AtomsAtLoad ==
    /\ last.op = "load_predicate_expression"
          => LET Atom(data, e) ==
                    /\ e.type = "pred-expr"
                    /\ e.result =
                          IF data.function \in {"has-declared-area-code", "has-course"}
                          THEN Some(evaluate_predicate_function(data.function, data.argument, value))
                          ELSE None
             IN  /\ ~ last.raised
                 /\ assertion.data.type = "leaf" => Atom(assertion.data, result)
                 /\ (assertion.data.type = "$not" /\ assertion.data.operand.type = "leaf")
                        => Atom(assertion.data.operand, result.expression)
    /\ ( /\ last.op = "load_single_assertion"
         /\ \E i \in DOMAIN assertion.changes :
               /\ assertion.changes[i].cond.type = "leaf"
               /\ assertion.changes[i].cond.function = "requirement-is-satisfied" )
          => last.raised /\ result = RaisedError("TypeError")

\* a requirement-is-satisfied atom was loaded for a student who declared area 130
C26_Witness ==
    /\ last.op = "load_predicate_expression"
    /\ assertion.data.type = "leaf"
    /\ assertion.data.function = "requirement-is-satisfied"
    /\ value.area_codes = {"130"}
    /\ result.result = None

\* C27: for a condition built from static atoms with $and, $or and $not,
\* evaluate(ctx) gives the result computed when it was loaded on the same context,
\* and a value change, which evaluates its condition when loaded, carries a true
\* result exactly when its condition is true of the student.
C27_EvaluateAgreesWithLoad ==
    (last.op = "load_single_assertion" /\ ~ last.raised)
        => \A i \in DOMAIN assertion.changes :
              /\ result.changes[i].expression.result
                    = load_predicate_expression(assertion.changes[i].cond, value).result
              /\ Truthy(result.changes[i].expression.result)
                    <=> ConditionHolds(assertion.changes[i].cond, value)

----------------------------------------------------------------------------
(* Properties of input_size_range *)

\* C28: for every operator, integer expected value and maximum, the sizes
\* input_size_range yields are strictly ascending, and none is below 0 or above
\* maximum.
C28_SizesAscendWithinMaximum ==
    (last.op = "input_size_range" /\ ~ result.raised)
        => /\ \A i, j \in DOMAIN result.sizes : i < j => result.sizes[i] < result.sizes[j]
           /\ \A i \in DOMAIN result.sizes : 0 <= result.sizes[i] /\ result.sizes[i] <= value
----------------------------------------------------------------------------
(* Properties of the result table *)

\* C29: after any sequence of completed audit calls the result table holds at most
\* one active row per student and area; an audit that is not link_only leaves
\* every earlier row of its student and area inactive and inserts an active row; a
\* link_only audit inserts an inactive row and changes no row at hand.
C29_OneActiveRowPerStudentAndArea ==
    /\ \A r1, r2 \in value :
          ( /\ r1.student_id = r2.student_id
            /\ r1.area_code = r2.area_code
            /\ r1.is_active
            /\ r2.is_active ) => r1 = r2
    /\ (last.op = "audit" /\ last.returned)
          => \E new \in value :
                /\ { r \in value : r.id \notin { x.id : x \in last.before } } = {new}
                /\ new.student_id = last.student_id
                /\ new.area_code = last.area_code
                /\ new.is_active = ~ last.link_only
                /\ last.link_only => last.before \subseteq value
                /\ ~ last.link_only
                      => \A r \in value \ {new} :
                            (r.student_id = new.student_id /\ r.area_code = new.area_code)
                                => ~ r.is_active

\* an audit that is not link_only found an active row and a link_only row of its
\* student and area, and left its own row as the only active one
C29_Witness ==
    /\ last.op = "audit"
    /\ last.returned
    /\ ~ last.link_only
    /\ \E r \in last.before :
          r.student_id = last.student_id /\ r.area_code = last.area_code /\ r.is_active
    /\ \E r \in value :
          r.student_id = last.student_id /\ r.area_code = last.area_code /\ r.link_only
    /\ Cardinality({ r \in value : r.student_id = last.student_id
                                   /\ r.area_code = last.area_code /\ r.is_active }) = 1

\* C30: over any sequence of audit calls for one student and area, the revision of
\* each inserted result is greater than every revision assigned before to a result
\* of that student and area, those of results deleted since included.
C30_RevisionsAreNeverReused ==
    (last.op = "audit" /\ last.returned)
        => \A new \in { r \in value : r.id \notin { x.id : x \in last.before } } :
              \A g \in last.assigned :
                 (g.student_id = new.student_id /\ g.area_code = new.area_code)
                    => g.revision < new.revision

====
